---- MODULE Spec2Model ----
(***************************************************************************)
(* Model of scripts/interwikidata.py: the IWBot page processor that links  *)
(* wiki pages to Wikibase items through the language links of the page     *)
(* text, and optionally removes the language links afterwards.             *)
(*                                                                         *)
(* The wiki and the data repository are the state.  One action stands for  *)
(* main() up to bot.run(), one for a caller that builds IWBot itself, one  *)
(* for the treatment of a page delivered by the generator.  Library calls  *)
(* (textlib, ItemPage, put_current) are modelled by their documented       *)
(* effect and recorded in a call log.                                      *)
(***************************************************************************)
EXTENDS Integers, Sequences, FiniteSets, TLC

\* ------------------------------------------------------------------ bounds
\* Longest page text, in tokens (a token is a run of plain text or one
\* language link).
MaxLen == 2

\* ------------------------------------------------------- the wiki universe
HomeSite == "en"
Sites == {"en", "de", "fr"}
\* Titles of pages that exist; "T[" is a title the library rejects.
Titles == {"T1", "T2"}
LinkTitles == {"T1", "T["}
InvalidTitles == {"T["}
\* Items present in the repository before the bot starts, and the ids the
\* repository hands out to new items, in order.
ItemIds0 == {"Q1", "Q2"}
ItemName == <<"Q1", "Q2", "Q3", "Q4", "Q5">>
\* Namespaces of the pages the generator may deliver (0 main, 1 talk,
\* 14 category).
PageNamespaces == {0, 1, 14}
PageTitles == {"T1"}
\* Pages that exist on each site (the pages an item's sitelink can name).
SiteTitles(site) == IF site = HomeSite THEN Titles ELSE {"T1"}

\* Site.dbName() and Site.lang
dbName(site) ==
    CASE site = "en" -> "enwiki"
      [] site = "de" -> "dewiki"
      [] site = "fr" -> "frwiki"
lang(site) == site

\* Allowed namespaces. main, project, template, category
namespaces == {0, 4, 10, 14}

\* Default edit summary (i18n.twtranslate 'interwikidata-clean-summary')
DefaultSummary == "interwikidata-clean-summary"
NoSummary == "None"

\* Python's None and False as distinguishable non-item values
None == "None"
False == "False"

EmptyFn == [x \in {} |-> ""]
Put(f, k, v) == [x \in (DOMAIN f) \cup {k} |-> IF x = k THEN v ELSE f[x]]
Ev(op, arg) == [op |-> op, arg |-> arg]
\* The calls of a call sequence, each with the number of times it was made
Calls(seq) ==
    [e \in {seq[i] : i \in DOMAIN seq} |-> Cardinality({i \in DOMAIN seq : seq[i] = e})]

\* ------------------------------------------------------------- page text
TextToken == [kind |-> "text", site |-> "", title |-> "x"]
LinkToken(site, title) == [kind |-> "link", site |-> site, title |-> title]
\* Language links point to the other language editions.
LinkSites == Sites \ {HomeSite}
Tokens == {TextToken} \cup {LinkToken(s, t) : s \in LinkSites, t \in LinkTitles}
Texts == UNION {[1..n -> Tokens] : n \in 0..MaxLen}

\* textlib.getLanguageLinks: dict site -> Page; a later link to the same
\* site replaces an earlier one.
getLanguageLinks(text) ==
    LET linkAt == {i \in DOMAIN text : text[i].kind = "link"}
        last(s) == CHOOSE i \in linkAt :
                      /\ text[i].site = s
                      /\ \A j \in linkAt : text[j].site = s => j <= i
    IN [s \in {text[i].site : i \in linkAt} |-> text[last(s)].title]

\* textlib.removeLanguageLinks
IsNotLink(tok) == tok.kind # "link"
removeLanguageLinks(text) == SelectSeq(text, IsNotLink)

\* -------------------------------------------------------- data repository
\* ItemPage.fromPage(page): the item holding page as sitelink; NoPage when
\* there is none, InvalidTitle when the title cannot be a page title.
fromPage(repo, site, title) ==
    IF title \in InvalidTitles THEN "InvalidTitle"
    ELSE LET holders == {q \in DOMAIN repo :
                            /\ dbName(site) \in DOMAIN repo[q].sitelinks
                            /\ repo[q].sitelinks[dbName(site)] = title}
         IN IF holders = {} THEN "NoPage" ELSE CHOOSE q \in holders : TRUE

\* ItemPage.setSitelink(page)
setSitelink(repo, q, page) ==
    [repo EXCEPT ![q].sitelinks = Put(@, dbName(page.site), page.title)]

\* ItemPage(repo).editEntity(data, new='item')
editEntity(repo, data) ==
    LET q == ItemName[Cardinality(DOMAIN repo) + 1]
    IN [id |-> q,
        repo |-> [x \in (DOMAIN repo) \cup {q} |->
                     IF x = q THEN [sitelinks |-> data.sitelinks,
                                    labels |-> data.labels]
                     ELSE repo[x]]]

\* Sequences that enumerate the set S once each (iteration orders of a dict)
Orders(S) == {o \in [1..Cardinality(S) -> S] : \A x \in S : \E i \in DOMAIN o : o[i] = x}

\* ------------------------------------------------------------------ IWBot
\* The bot is a record: options, repo (the data repository it talks to),
\* page and text (current_page), iwlangs, current_item, item (the local
\* variable of treat_page) and log (the calls made so far).

\* F applied to x, with x computed once (a local variable assignment).
With(x, F(_)) == CHOOSE r \in {F(v) : v \in {x}} : TRUE

\* A constructor that does not look at site.has_data_repository.
IWBot_init_no_check(site_has_data_repository, kwargs) ==
    [raised |-> FALSE,
     options |-> IF kwargs.summary = NoSummary
                 THEN [kwargs EXCEPT !.summary = DefaultSummary]
                 ELSE kwargs]

\* IWBot.__init__: the options after construction, or the ValueError raised
\* for a site without data repository.
IWBot_init(site_has_data_repository, kwargs) ==
    IF ~site_has_data_repository
    THEN [raised |-> TRUE, options |-> kwargs]
    ELSE [raised |-> FALSE,
          options |-> IF kwargs.summary = NoSummary
                      THEN [kwargs EXCEPT !.summary = DefaultSummary]
                      ELSE kwargs]

\* One pass of the loop of try_to_add, for the language link to site s:
\* acc is wd_data and the calls made so far.
collect_one(repo, iwlangs, s, acc) ==
    With(fromPage(repo, s, iwlangs[s]), LAMBDA r :
        CASE r = "NoPage" ->
                [wd_data |-> acc.wd_data,
                 log |-> acc.log \o <<Ev("fromPage", s),
                                      Ev("warning", "does not exist")>>]
          [] r = "InvalidTitle" ->
                [wd_data |-> acc.wd_data,
                 log |-> acc.log \o <<Ev("fromPage", s),
                                      Ev("warning", "Invalid title")>>]
          [] OTHER ->
                [wd_data |-> acc.wd_data \cup {r},
                 log |-> Append(acc.log, Ev("fromPage", s))])

\* A loop that leaves at the first failing lookup (break for continue).
RECURSIVE collect_break(_, _, _, _)
collect_break(repo, iwlangs, order, acc) ==
    IF order = <<>> THEN acc
    ELSE With(collect_one(repo, iwlangs, Head(order), acc), LAMBDA next :
            IF next.log[Len(next.log)].op = "warning" THEN next
            ELSE collect_break(repo, iwlangs, Tail(order), next))

\* The for loop of try_to_add over self.iwlangs.values(), in the iteration
\* order `order` of the dict.
RECURSIVE collect(_, _, _, _)
collect(repo, iwlangs, order, acc) ==
    IF order = <<>> THEN acc
    ELSE With(collect_one(repo, iwlangs, Head(order), acc), LAMBDA next :
            collect(repo, iwlangs, Tail(order), next))

\* try_to_add variants: the result of the successful branch is changed by
\* `success`, and `check` says whether the existing-sitelink test is made.
try_to_add_variant(self, order, check, success(_, _)) ==
    With(collect(self.repo, self.iwlangs, order, [wd_data |-> {}, log |-> <<>>]),
         LAMBDA c :
            IF Cardinality(c.wd_data) # 1
               \/ (check /\ \E q \in c.wd_data :
                                dbName(self.page.site) \in DOMAIN self.repo[q].sitelinks)
            THEN [result |-> False, repo |-> self.repo,
                  log |-> Append(c.log, Ev("warning", "Interwiki conflict"))]
            ELSE success(CHOOSE q \in c.wd_data : TRUE, c.log))

\* A try_to_add that sets the sitelink but falls off the end (returns None).
try_to_add_no_return(self, order) ==
    LET success(item, calls) ==
            [result |-> None,
             repo |-> setSitelink(self.repo, item, self.page),
             log |-> calls \o <<Ev("output", "Adding link"), Ev("setSitelink", item)>>]
    IN try_to_add_variant(self, order, TRUE, success)

\* A try_to_add that does not test whether the item already has a sitelink
\* for the page's site.
try_to_add_no_sitelink_check(self, order) ==
    LET success(item, calls) ==
            [result |-> item,
             repo |-> setSitelink(self.repo, item, self.page),
             log |-> calls \o <<Ev("output", "Adding link"), Ev("setSitelink", item)>>]
    IN try_to_add_variant(self, order, FALSE, success)

\* A try_to_add that returns the item without calling setSitelink.
try_to_add_no_set(self, order) ==
    LET success(item, calls) ==
            [result |-> item, repo |-> self.repo,
             log |-> Append(calls, Ev("output", "Adding link"))]
    IN try_to_add_variant(self, order, TRUE, success)

\* IWBot.try_to_add: the value returned, the repository afterwards and the
\* calls made.
try_to_add(self, order) ==
    With(collect(self.repo, self.iwlangs, order, [wd_data |-> {}, log |-> <<>>]),
         LAMBDA c :
            IF Cardinality(c.wd_data) # 1
            THEN [result |-> False, repo |-> self.repo,
                  log |-> Append(c.log, Ev("warning", "Interwiki conflict"))]
            ELSE With(CHOOSE q \in c.wd_data : TRUE, LAMBDA item :
                    IF dbName(self.page.site) \in DOMAIN self.repo[item].sitelinks
                    THEN [result |-> False, repo |-> self.repo,
                          log |-> Append(c.log, Ev("warning", "Interwiki conflict"))]
                    ELSE [result |-> item,
                          repo |-> setSitelink(self.repo, item, self.page),
                          log |-> c.log \o <<Ev("output", "Adding link"),
                                             Ev("setSitelink", item)>>]))

\* IWBot.create_item
create_item(self) ==
    With(editEntity(self.repo,
                    [sitelinks |-> [x \in {dbName(self.page.site)} |-> self.page.title],
                     labels |-> [x \in {lang(self.page.site)} |-> self.page.title]]),
         LAMBDA made :
            [result |-> made.id, repo |-> made.repo,
             log |-> <<Ev("editEntity", made.id), Ev("output", "Created item")>>])

\* IWBot.handle_complicated
handle_complicated == FALSE

\* IWBot.clean_page: the page text afterwards and the calls made.
\* put_current is taken to save the text it is given (the user, or -always,
\* accepts the change).
clean_page(self) ==
    IF DOMAIN self.iwlangs = {} THEN [text |-> self.text, log |-> <<>>]
    ELSE LET dbnames == {dbName(iw_site) : iw_site \in DOMAIN self.iwlangs}
             keys == DOMAIN self.repo[self.current_item].sitelinks
         IN IF (dbnames \subseteq keys /\ dbnames # keys) /\ ~handle_complicated
            THEN [text |-> self.text,
                  log |-> <<Ev("warning", "Interwiki conflict")>>]
            ELSE [text |-> removeLanguageLinks(self.text),
                  log |-> <<Ev("output", "Cleaning up the page"),
                            Ev("put_current", self.options.summary)>>]

\* treat_page, the item of the page itself: item = ItemPage.fromPage(...),
\* None on NoPage.
treat_lookup(self) ==
    With(fromPage(self.repo, self.page.site, self.page.title), LAMBDA found :
        [self EXCEPT !.item = IF found = "NoPage" THEN None ELSE found,
                     !.log = <<Ev("fromPage", self.page.site)>>])

\* treat_page, `if item is None:` item = try_to_add(), and create_item()
\* when 'create' is on and item is None.
treat_add(self, order) ==
    IF self.item # None THEN self
    ELSE With(With(try_to_add(self, order), LAMBDA added :
                     [self EXCEPT !.item = added.result, !.repo = added.repo,
                                  !.log = self.log \o added.log]),
              LAMBDA s :
                 IF s.options.create /\ s.item = None
                 THEN With(create_item(s), LAMBDA created :
                         [s EXCEPT !.item = created.result, !.repo = created.repo,
                                   !.log = s.log \o created.log])
                 ELSE s)

\* treat_page, the end: self.current_item = item, and clean_page() when
\* there is an item and 'clean' is on.
treat_clean(self) ==
    With([self EXCEPT !.current_item = self.item], LAMBDA s :
        IF s.item \notin {None, False} /\ s.options.clean
        THEN With(clean_page(s), LAMBDA cleaned :
                [s EXCEPT !.text = cleaned.text, !.log = s.log \o cleaned.log])
        ELSE s)

\* treat_page from the item lookup on: self has self.iwlangs set, `order`
\* is the iteration order of the language-link dict.
treat_item(self, order) ==
    With(With(treat_lookup(self), LAMBDA s : treat_add(s, order)), treat_clean)

\* A treat_page that goes on to the item lookup without language links.
treat_page_no_links_check(self, order) ==
    IF self.page.ns \notin namespaces /\ ~self.options.ignore_ns
    THEN [self EXCEPT !.log = <<Ev("output", "not in allowed namespaces")>>]
    ELSE With([self EXCEPT !.iwlangs = getLanguageLinks(self.text)], LAMBDA s :
            treat_item(s, order))

\* A treat_page whose namespace test reads `or` for `and`.
treat_page_or_override(self, order) ==
    IF self.page.ns \notin namespaces \/ ~self.options.ignore_ns
    THEN [self EXCEPT !.log = <<Ev("output", "not in allowed namespaces")>>]
    ELSE With([self EXCEPT !.iwlangs = getLanguageLinks(self.text)], LAMBDA s :
            IF DOMAIN s.iwlangs = {}
            THEN [s EXCEPT !.log = <<Ev("output", "No interlanguagelinks")>>]
            ELSE treat_item(s, order))

\* IWBot.treat_page for self.current_page; `order` is the iteration order
\* of the language-link dict.
treat_page(self, order) ==
    IF self.page.ns \notin namespaces /\ ~self.options.ignore_ns
    THEN [self EXCEPT !.log = <<Ev("output", "not in allowed namespaces")>>]
    ELSE With([self EXCEPT !.iwlangs = getLanguageLinks(self.text)], LAMBDA s :
            IF DOMAIN s.iwlangs = {}
            THEN [s EXCEPT !.log = <<Ev("output", "No interlanguagelinks")>>]
            ELSE treat_item(s, order))

\* ------------------------------------------------------------ the system
VARIABLES
    pc,                   \* "start", "run", "fatal" (ValueError), "exit"
    site,                 \* pywikibot.Site(), None before main creates it
    options,              \* self.options
    repo,                 \* the data repository: item id -> sitelinks, labels
    page,                 \* the wiki page the generator delivers
    generator,            \* titles the generator has still to deliver
    iwlangs,              \* self.iwlangs
    current_item,         \* self.current_item
    log,                  \* library calls made by the last treat_page, counted
    before                \* repository, text and iwlangs when it started

vars == <<pc, site, options, repo, page, generator, iwlangs,
          current_item, log, before>>

\* availableOptions before construction
DefaultOptions ==
    [clean |-> FALSE, create |-> FALSE, summary |-> NoSummary, ignore_ns |-> FALSE]

Summaries == {NoSummary, "custom"}
Kwargs == [clean : BOOLEAN, create : BOOLEAN, summary : Summaries, ignore_ns : BOOLEAN]

Sitelinks == UNION {[D -> Titles] : D \in SUBSET {dbName(s) : s \in Sites}}
SiteOf(d) == CHOOSE s \in Sites : dbName(s) = d

\* Repositories of the items ItemIds0: every sitelink names an existing
\* page, and no page is the sitelink of two items.
Repos ==
    {r \in [ItemIds0 -> [sitelinks : Sitelinks, labels : {EmptyFn}]] :
        /\ \A q \in ItemIds0 : \A d \in DOMAIN r[q].sitelinks :
              r[q].sitelinks[d] \in SiteTitles(SiteOf(d))
        /\ \A q1, q2 \in ItemIds0 : \A d \in DOMAIN r[q1].sitelinks :
              (q1 # q2 /\ d \in DOMAIN r[q2].sitelinks)
                 => r[q1].sitelinks[d] # r[q2].sitelinks[d]}

SiteObjects == [has_data_repository : BOOLEAN]

Pages == [site : {HomeSite}, title : PageTitles, ns : PageNamespaces, text : Texts]

Init ==
    /\ pc = "start"
    /\ site = None
    /\ options = DefaultOptions
    /\ repo \in Repos
    /\ page \in Pages
    /\ generator = {page.title}
    /\ iwlangs = EmptyFn
    /\ current_item = None
    /\ log = Calls(<<>>)
    /\ before = [repo |-> repo, text |-> page.text, iwlangs |-> iwlangs]

\* IWBot(generator, site, **kwargs) followed by bot.run(), up to the first
\* page.
construct(the_site, kwargs) ==
    LET made == IWBot_init(the_site.has_data_repository, kwargs)
    IN /\ site' = the_site
       /\ pc' = IF made.raised THEN "fatal" ELSE "run"
       /\ options' = IF made.raised THEN options ELSE made.options
       /\ UNCHANGED <<repo, page, generator, iwlangs, current_item, log, before>>

\* main(*args): -clean and -create are the options it passes on; without a
\* generator it prints the help and returns.
main ==
    /\ pc = "start"
    /\ \E clean \in BOOLEAN, create \in BOOLEAN, has_generator \in BOOLEAN,
          the_site \in SiteObjects :
          IF has_generator
          THEN construct(the_site,
                         [DefaultOptions EXCEPT !.clean = clean, !.create = create])
          ELSE /\ pc' = "exit"
               /\ site' = the_site
               /\ UNCHANGED <<options, repo, page, generator, iwlangs,
                              current_item, log, before>>

\* A caller that builds the bot itself, with any of the available options.
IWBot ==
    /\ pc = "start"
    /\ \E kwargs \in Kwargs, the_site \in SiteObjects : construct(the_site, kwargs)

\* bot.run(): the generator delivers its next page and treat_page handles it.
run ==
    /\ pc = "run"
    /\ generator # {}
    /\ Cardinality(DOMAIN repo) < Len(ItemName)
    /\ \E title \in generator :
       \E order \in Orders(DOMAIN getLanguageLinks(page.text)) :
       \E self \in {[options |-> options, repo |-> repo,
                     page |-> [site |-> page.site, title |-> page.title, ns |-> page.ns],
                     text |-> page.text, iwlangs |-> iwlangs,
                     current_item |-> current_item, item |-> None, log |-> <<>>]} :
       \E done \in {treat_page(self, order)} :
          /\ title = page.title
          /\ generator' = generator \ {title}
          /\ before' = [repo |-> repo, text |-> page.text, iwlangs |-> iwlangs]
          /\ repo' = done.repo
          /\ page' = [page EXCEPT !.text = done.text]
          /\ iwlangs' = done.iwlangs
          /\ current_item' = done.current_item
          /\ log' = Calls(done.log)
          /\ UNCHANGED <<pc, site, options>>

Next == main \/ IWBot \/ run

Spec == Init /\ [][Next]_vars

\* ------------------------------------------------- vocabulary of the claims
\* The last page has been through treat_page.
Treated == pc = "run" /\ generator = {}

HomeKey == dbName(page.site)
\* treat_page went past the namespace filter
NsPassed == page.ns \in {0, 4, 10, 14} \/ options.ignore_ns
\* the language links of the text treat_page was given
LinksBefore == getLanguageLinks(before.text)
HasLinks == DOMAIN LinksBefore # {}
\* the page's own item when treat_page started
OwnItemBefore == fromPage(before.repo, page.site, page.title)
Resolves(s) == fromPage(before.repo, s, LinksBefore[s]) \notin {"NoPage", "InvalidTitle"}
\* the distinct items of the language-linked pages
Candidates == {fromPage(before.repo, s, LinksBefore[s]) : s \in {x \in DOMAIN LinksBefore : Resolves(x)}}
ReachedTryToAdd == Treated /\ NsPassed /\ HasLinks /\ OwnItemBefore = "NoPage"
Unusable ==
    \/ Cardinality(Candidates) # 1
    \/ \E q \in Candidates : HomeKey \in DOMAIN before.repo[q].sitelinks
Made(op) == {e \in DOMAIN log : e.op = op}
Warned(what) == Ev("warning", what) \in DOMAIN log
HasItem == current_item \in DOMAIN repo
LinkKeys == {dbName(s) : s \in DOMAIN LinksBefore}
ReachedClean == Treated /\ NsPassed /\ HasLinks /\ options.clean /\ HasItem

\* C1: with 'create' on, a page without item whose language links give no
\* usable item gets a new item holding exactly the page as sitelink and the
\* page title as label in the site's language.
C1_CreateWhenUnresolved ==
    (ReachedTryToAdd /\ Unusable /\ options.create) =>
        /\ Made("editEntity") # {}
        /\ \E q \in (DOMAIN repo) \ (DOMAIN before.repo) :
              /\ repo[q].sitelinks = [x \in {HomeKey} |-> page.title]
              /\ repo[q].labels = [x \in {lang(page.site)} |-> page.title]

\* C2: with 'clean' on and an item at hand, language links to a site the
\* item has no sitelink for leave the text unsaved and raise the conflict
\* warning.
C2_NoSaveWhenLinksNotCovered ==
    (ReachedClean /\ ~(LinkKeys \subseteq DOMAIN repo[current_item].sitelinks)) =>
        /\ Made("put_current") = {}
        /\ page.text = before.text
        /\ Warned("Interwiki conflict")

\* C3: with 'clean' on and an item whose sitelinks cover the sites of all
\* language links, the text is saved once, without language links, under
\* the configured summary, and cleaning leaves the item as it was.
C3_SaveWhenLinksCovered ==
    (ReachedClean /\ LinkKeys \subseteq DOMAIN repo[current_item].sitelinks) =>
        /\ page.text = removeLanguageLinks(before.text)
        /\ Made("put_current") = {Ev("put_current", options.summary)}
        /\ log[Ev("put_current", options.summary)] = 1
        /\ OwnItemBefore # "NoPage" => repo = before.repo

\* C4: when the language links name exactly one item and it has no sitelink
\* for the page's site, try_to_add gives that item the page as its one new
\* sitelink, changes nothing else in the repository and returns the item.
C4_LinkedToTheOneItem ==
    (ReachedTryToAdd /\ ~Unusable) =>
        \E q \in Candidates :
            /\ current_item = q
            /\ DOMAIN repo[q].sitelinks = (DOMAIN before.repo[q].sitelinks) \cup {HomeKey}
            /\ repo[q].sitelinks[HomeKey] = page.title
            /\ \A d \in DOMAIN before.repo[q].sitelinks :
                  repo[q].sitelinks[d] = before.repo[q].sitelinks[d]
            /\ repo[q].labels = before.repo[q].labels
            /\ DOMAIN repo = DOMAIN before.repo
            /\ \A o \in (DOMAIN repo) \ {q} : repo[o] = before.repo[o]
            /\ Made("setSitelink") = {Ev("setSitelink", q)}
            /\ log[Ev("setSitelink", q)] = 1

C4_Witness ==
    /\ ReachedTryToAdd /\ ~Unusable
    /\ Cardinality(DOMAIN LinksBefore) = 2
    /\ \A s \in DOMAIN LinksBefore : Resolves(s)
    /\ Made("setSitelink") # {}

\* C5: when the language links name no item, several items, or one item
\* that already has a sitelink for the page's site, no item's sitelinks
\* change, setSitelink is not called, the conflict warning is given, and
\* without 'create' the page text is not saved.
C5_ConflictMutatesNothing ==
    (ReachedTryToAdd /\ Unusable) =>
        /\ \A q \in DOMAIN before.repo :
              q \in DOMAIN repo /\ repo[q].sitelinks = before.repo[q].sitelinks
        /\ Made("setSitelink") = {}
        /\ Warned("Interwiki conflict")
        /\ ~options.create => (Made("put_current") = {} /\ page.text = before.text)

C5_WitnessTwoItems ==
    /\ ReachedTryToAdd
    /\ Cardinality(Candidates) = 2
    /\ Warned("Interwiki conflict")

\* C6: the text is saved only while current_item is an item of the
\* repository that has a sitelink for the page's site.
C6_SaveOnlyWithSitelink ==
    Made("put_current") # {} =>
        /\ current_item \in DOMAIN repo
        /\ HomeKey \in DOMAIN repo[current_item].sitelinks

C6_Witness ==
    /\ Treated /\ Made("put_current") # {}
    /\ Made("setSitelink") # {}
    /\ page.text # before.text

\* C7: a page without language links is reported and left alone: the only
\* call is the "No interlanguagelinks" output, whatever the options.
C7_NoLinksNoLookup ==
    (Treated /\ NsPassed /\ ~HasLinks) =>
        /\ log = Calls(<<Ev("output", "No interlanguagelinks")>>)
        /\ repo = before.repo
        /\ page.text = before.text
        /\ current_item = None

C7_Witness ==
    /\ Treated /\ NsPassed /\ ~HasLinks
    /\ options.clean /\ options.create
    /\ OwnItemBefore # "NoPage"
    /\ Warned("Interwiki conflict") = FALSE /\ DOMAIN log # {}

\* C8: a page outside namespaces 0, 4, 10, 14 is reported as skipped and
\* nothing else happens, the language links are not even parsed; with
\* 'ignore_ns' the page goes on to the language-link step.
C8_NamespaceFilter ==
    (Treated /\ page.ns \notin {0, 4, 10, 14}) =>
        IF ~options.ignore_ns
        THEN /\ log = Calls(<<Ev("output", "not in allowed namespaces")>>)
             /\ iwlangs = before.iwlangs
             /\ repo = before.repo
             /\ page.text = before.text
             /\ current_item = None
        ELSE /\ iwlangs = LinksBefore
             /\ Ev("output", "not in allowed namespaces") \notin DOMAIN log
             /\ \/ Ev("output", "No interlanguagelinks") \in DOMAIN log
                \/ Made("fromPage") # {}

C8_WitnessSkipped ==
    /\ Treated /\ page.ns \notin {0, 4, 10, 14} /\ ~options.ignore_ns
    /\ HasLinks /\ options.clean /\ options.create
    /\ Ev("output", "not in allowed namespaces") \in DOMAIN log

\* C9: on a site without data repository the constructor fails before any
\* page is treated: the run never starts, no call is made, and repository
\* and page stay as they were.
C9_NoRepositoryIsFatal ==
    (pc # "start" /\ ~site.has_data_repository) =>
        /\ pc \in {"fatal", "exit"}
        /\ generator = {page.title}
        /\ DOMAIN log = {}
        /\ repo = before.repo /\ page.text = before.text
        /\ iwlangs = EmptyFn /\ current_item = None

C9_WitnessFatal == pc = "fatal" /\ ~site.has_data_repository

\* C10: language links whose item lookup fails (NoPage, InvalidTitle) are
\* warned about one by one and otherwise ignored: try_to_add ends as it
\* does for the resolving links alone, so one resolving link among failing
\* ones still links the page to that link's item.
C10_FailingLinksAreSkipped ==
    ReachedTryToAdd =>
        LET good == {s \in DOMAIN LinksBefore : Resolves(s)}
            bad(why) == {s \in DOMAIN LinksBefore :
                            fromPage(before.repo, s, LinksBefore[s]) = why}
            self == [options |-> options, repo |-> before.repo,
                     page |-> [site |-> page.site, title |-> page.title, ns |-> page.ns],
                     text |-> before.text,
                     iwlangs |-> [s \in good |-> LinksBefore[s]],
                     current_item |-> None, item |-> None, log |-> <<>>]
            times(e) == IF e \in DOMAIN log THEN log[e] ELSE 0
        IN /\ \A order \in Orders(good) :
                /\ try_to_add(self, order).result = current_item
                /\ try_to_add(self, order).repo = repo
           /\ times(Ev("warning", "does not exist")) = Cardinality(bad("NoPage"))
           /\ times(Ev("warning", "Invalid title")) = Cardinality(bad("InvalidTitle"))
           /\ \A s \in DOMAIN LinksBefore : times(Ev("fromPage", s)) >= 1
           /\ (Cardinality(good) = 1 /\ ~Unusable) => current_item \in Candidates

C10_Witness ==
    /\ ReachedTryToAdd
    /\ \E s \in DOMAIN LinksBefore : ~Resolves(s)
    /\ \E s \in DOMAIN LinksBefore : Resolves(s)
    /\ current_item \in Candidates
    /\ Warned("does not exist") \/ Warned("Invalid title")

====
